---- MODULE Spec2Model ----
(***************************************************************************)
(* A model of the HTTP helper layer (src/app/util/requests.ts), of the     *)
(* platform-app asset service (src/unnamed/part_002) and of the token      *)
(* refresh of the Twitch service (src/unnamed/part_001).                   *)
(*                                                                         *)
(* Four specifications share the module's variables:                      *)
(*   SpecRetry   the requiresToken decorator around one wrapped operation  *)
(*   SpecAssets  addPlatformAppAsset (mkdirp, downloadFile, getChecksum,   *)
(*               ADD_ASSET) run by concurrent invocations                  *)
(*   SpecRaces   SpecAssets with the history of file contents kept         *)
(*   SpecStore   ADD_ASSET / getAsset / hasAsset on an arbitrary table     *)
(* Each specification leaves the variables of the others unchanged.        *)
(***************************************************************************)
EXTENDS Naturals, Sequences, FiniteSets, TLC

VARIABLES
    \* ---- requiresToken (requests.ts 18-35) ----
    rtPc,        \* position of the wrapped invocation
    rtArgs,      \* the argument list the caller passed (args)
    rtCalls,     \* the calls of `original` so far: <<[args, out]>>
    rtRefresh,   \* the calls of target.fetchNewToken so far: <<out>>
    rtResult,    \* how the promise returned by value(...args) settled
    rtRuns,      \* number of invocations started (bounded by MaxRuns)
    \* ---- PlatformAppAssetsService (part_002), downloadFile, getChecksum ----
    state,       \* this.state: appId -> (asset filename -> checksum)
    disk,        \* the files on disk: path -> content
    dirs,        \* the directories mkdirp has made
    inv,         \* the addPlatformAppAsset invocations, one record each
    started,     \* number of invocations started (bounded by MaxStarts)
    \* ---- a direct caller of the store (SpecStore) ----
    lastAdd      \* the arguments of the latest ADD_ASSET

retryVars == <<rtPc, rtArgs, rtCalls, rtRefresh, rtResult, rtRuns>>

assetVars == <<state, disk, dirs, inv, started>>

vars == <<retryVars, assetVars, lastAdd>>

\* what the actions of one part leave alone
notRetry == <<assetVars, lastAdd>>

notAssets == <<retryVars, lastAdd>>

(***************************************************************************)
(* Bounds of the model.                                                    *)
(***************************************************************************)
MaxRuns == 2

\* invocations of addPlatformAppAsset started in one behaviour
MaxStarts == 2

\* chunks one response body delivers before end-of-stream
MaxChunks == 2

(***************************************************************************)
(* Settlements of promises.  A settlement is a record                      *)
(*   kind   "resolve" | "reject" | "none" (not settled)                    *)
(*   obj    whether the value is an object (FALSE: null / undefined)       *)
(*   status the value's `status` property, 0 when it has none              *)
(*   body   what tells two values apart                                    *)
(***************************************************************************)
Unauthorized == 401

Statuses == {Unauthorized, 403, 0}

Bodies == {"b1", "b2"}

ArgLists == {"args1", "args2"}

NoSettlement == [kind |-> "none", obj |-> FALSE, status |-> 0, body |-> "none"]

Resolutions == [kind : {"resolve"}, obj : {TRUE}, status : {0}, body : Bodies]

\* a rejection reason: a parsed error body (handleResponse), or null
NullReason == [kind |-> "reject", obj |-> FALSE, status |-> 0, body |-> "null"]

Rejections ==
    [kind : {"reject"}, obj : {TRUE}, status : Statuses, body : Bodies]
        \cup {NullReason}

\* reading .status of null throws inside the catch handler
TypeError == [kind |-> "reject", obj |-> TRUE, status |-> 0, body |-> "TypeError"]

\* what a call of the wrapped operation may settle to
OriginalOutcomes == Resolutions \cup Rejections

\* fetchNewToken: fetch(request).then(handleResponse).then(updatePlatformToken)
\* resolves with no value, or rejects with the parsed error body
VoidResolution == [kind |-> "resolve", obj |-> FALSE, status |-> 0, body |-> "void"]

fetchNewTokenOutcomes == {VoidResolution} \cup Rejections

(***************************************************************************)
(* requiresToken                                                           *)
(***************************************************************************)
RetryIdle ==
    /\ rtPc = "idle"
    /\ rtArgs = "none"
    /\ rtCalls = <<>>
    /\ rtRefresh = <<>>
    /\ rtResult = NoSettlement
    /\ rtRuns = 0

\* original.apply(target.constructor.instance, args): the call is recorded
\* with the argument list it receives
ApplyOriginal(args) == Append(rtCalls, [args |-> args, out |-> NoSettlement])

\* the outcome of the latest call of `original`
SettleLast(out) == [rtCalls EXCEPT ![Len(rtCalls)].out = out]

\* a slip: every reason that carries a status is taken for an expired token
IsUnauthorized_AnyStatus(error) == error.status # 0

\* the test of the catch handler
IsUnauthorized(error) == error.status = Unauthorized

\* value(...args): the first call of original (line 24)
Invoke(args) ==
    /\ rtPc = "idle"
    /\ rtRuns < MaxRuns
    /\ rtRuns' = rtRuns + 1
    /\ rtArgs' = args
    /\ rtCalls' = ApplyOriginal(args)
    /\ rtRefresh' = <<>>
    /\ rtResult' = NoSettlement
    /\ rtPc' = "call1"
    /\ UNCHANGED notRetry

\* the first call settles; on a rejection the catch handler runs (24-31)
FirstCallSettles(out) ==
    /\ rtPc = "call1"
    /\ rtCalls' = SettleLast(out)
    /\ IF out.kind = "resolve"
         THEN /\ rtResult' = out
              /\ rtPc' = "settled"
              /\ rtRefresh' = rtRefresh
         ELSE IF ~out.obj
           THEN \* error.status on null: the handler throws
                /\ rtResult' = TypeError
                /\ rtPc' = "settled"
                /\ rtRefresh' = rtRefresh
           ELSE IF IsUnauthorized(out)
             THEN /\ rtRefresh' = Append(rtRefresh, NoSettlement)
                  /\ rtPc' = "refresh"
                  /\ rtResult' = rtResult
             ELSE \* return Promise.reject(error)
                  /\ rtResult' = out
                  /\ rtPc' = "settled"
                  /\ rtRefresh' = rtRefresh
    /\ UNCHANGED <<rtArgs, rtRuns, notRetry>>

\* a slip: the replay is applied without the caller's arguments
RefreshSettles_DropsArgs(out) ==
    /\ rtPc = "refresh"
    /\ rtRefresh' = [rtRefresh EXCEPT ![Len(rtRefresh)] = out]
    /\ IF out.kind = "resolve"
         THEN /\ rtCalls' = ApplyOriginal("none")
              /\ rtPc' = "call2"
              /\ rtResult' = rtResult
         ELSE /\ rtResult' = out
              /\ rtPc' = "settled"
              /\ rtCalls' = rtCalls
    /\ UNCHANGED <<rtArgs, rtRuns, notRetry>>

\* a slip: a failed refresh is caught and the 401 of the first call is
\* rejected with instead
RefreshSettles_RejectsWithOriginal(out) ==
    /\ rtPc = "refresh"
    /\ rtRefresh' = [rtRefresh EXCEPT ![Len(rtRefresh)] = out]
    /\ IF out.kind = "resolve"
         THEN /\ rtCalls' = ApplyOriginal(rtArgs)
              /\ rtPc' = "call2"
              /\ rtResult' = rtResult
         ELSE /\ rtResult' = rtCalls[1].out
              /\ rtPc' = "settled"
              /\ rtCalls' = rtCalls
    /\ UNCHANGED <<rtArgs, rtRuns, notRetry>>

\* target.fetchNewToken() settles; .then(() => original.apply(..., args))
RefreshSettles(out) ==
    /\ rtPc = "refresh"
    /\ rtRefresh' = [rtRefresh EXCEPT ![Len(rtRefresh)] = out]
    /\ IF out.kind = "resolve"
         THEN /\ rtCalls' = ApplyOriginal(rtArgs)
              /\ rtPc' = "call2"
              /\ rtResult' = rtResult
         ELSE /\ rtResult' = out
              /\ rtPc' = "settled"
              /\ rtCalls' = rtCalls
    /\ UNCHANGED <<rtArgs, rtRuns, notRetry>>

\* a slip: the replay is started but not returned from the then handler, so
\* the invocation resolves with undefined when fetchNewToken resolves
ReplaySettles_NotReturned(out) ==
    /\ rtPc = "call2"
    /\ rtCalls' = SettleLast(out)
    /\ rtResult' = VoidResolution
    /\ rtPc' = "settled"
    /\ UNCHANGED <<rtArgs, rtRefresh, rtRuns, notRetry>>

\* a slip: the replay is wrapped again, so a second 401 refreshes again
ReplaySettles_Loops(out) ==
    /\ rtPc = "call2"
    /\ rtCalls' = SettleLast(out)
    /\ IF out.kind = "reject" /\ out.obj /\ IsUnauthorized(out)
         THEN /\ rtRefresh' = Append(rtRefresh, NoSettlement)
              /\ rtPc' = "refresh"
              /\ rtResult' = rtResult
         ELSE /\ rtResult' = out
              /\ rtPc' = "settled"
              /\ rtRefresh' = rtRefresh
    /\ UNCHANGED <<rtArgs, rtRuns, notRetry>>

\* the replay settles: its outcome is the outcome of the invocation
ReplaySettles(out) ==
    /\ rtPc = "call2"
    /\ rtCalls' = SettleLast(out)
    /\ rtResult' = out
    /\ rtPc' = "settled"
    /\ UNCHANGED <<rtArgs, rtRefresh, rtRuns, notRetry>>

\* the caller has observed the outcome; the method may be invoked again
Observe ==
    /\ rtPc = "settled"
    /\ rtPc' = "idle"
    /\ rtArgs' = "none"
    /\ rtCalls' = <<>>
    /\ rtRefresh' = <<>>
    /\ rtResult' = NoSettlement
    /\ UNCHANGED <<rtRuns, notRetry>>

NextRetry ==
    \/ \E args \in ArgLists : Invoke(args)
    \/ \E out \in OriginalOutcomes : FirstCallSettles(out)
    \/ \E out \in fetchNewTokenOutcomes : RefreshSettles(out)
    \/ \E out \in OriginalOutcomes : ReplaySettles(out)
    \/ Observe

(***************************************************************************)
(* Paths and URLs are sequences of segments.                               *)
(***************************************************************************)
\* application identifiers a caller may pass
AppIds == {"app1", "ghost"}

\* platformAppsService.getApp(appId) finds an application for these only
LoadedApps == {"app1"}

\* asset references (assetUrl) a caller may pass, relative to the application
AssetRefs == {<<"x.mp4">>, <<"v2", "x.mp4">>}

\* values a chunk of a response body may hold
Chunks == {1, 2}

\* platformAppsService.getAssetUrl(appId, assetUrl): the reference resolved
\* against the application's base URL
getAssetUrl(appId, assetUrl) == <<"https:", appId>> \o assetUrl

\* path.basename
basename(p) == p[Len(p)]

\* path.join(dir, name)
join(dir, name) == Append(dir, name)

\* electron.remote.app.getPath('userData')
userData == <<"userData">>

\* ensureAssets: path.join(userData, 'Media', 'Apps', app.id)
appAssetsDir(appId) == join(join(join(userData, "Media"), "Apps"), appId)

\* addPlatformAppAsset, line 75
filePathOf(appId, assetUrl) ==
    join(appAssetsDir(appId), basename(getAssetUrl(appId, assetUrl)))

(***************************************************************************)
(* getChecksum: a digest over the bytes read, hex encoded.  The digest is  *)
(* a small polynomial hash in place of MD5: deterministic, sensitive to    *)
(* every chunk and to their order, two hex digits long.                    *)
(***************************************************************************)
HexDigits ==
    <<"0", "1", "2", "3", "4", "5", "6", "7",
      "8", "9", "a", "b", "c", "d", "e", "f">>

\* crypto.createHash('md5')
createHash == 7

\* hash.update(data)
hashUpdate(h, data) == (h * 31 + data) % 256

\* hash.digest('hex')
hashDigest(h) == <<HexDigits[(h \div 16) + 1], HexDigits[(h % 16) + 1]>>

RECURSIVE hashAll(_, _)
hashAll(h, bytes) ==
    IF bytes = <<>> THEN h ELSE hashAll(hashUpdate(h, Head(bytes)), Tail(bytes))

\* the checksum getChecksum resolves with when it reads `bytes` undisturbed
checksumOf(bytes) == hashDigest(hashAll(createHash, bytes))

(***************************************************************************)
(* The checksum table (AssetsServiceState) and its accessors.              *)
(***************************************************************************)
Null == <<"null">>

Undefined == <<"undefined">>

\* {} : an object with no keys
EmptyObject == [k \in {} |-> Null]

\* Vue.set(obj, key, val)
VueSet(obj, key, val) ==
    [k \in (DOMAIN obj) \cup {key} |-> IF k = key THEN val ELSE obj[k]]

\* a slip: the application's map is indexed without looking whether it exists;
\* indexing undefined throws
getAsset_NoGuard(s, appId, assetName) ==
    IF appId \in DOMAIN s
      THEN IF assetName \in DOMAIN s[appId]
             THEN s[appId][assetName]
             ELSE Undefined
      ELSE <<"TypeError">>

\* getAsset(appId, assetName), lines 46-50
getAsset(s, appId, assetName) ==
    IF appId \in DOMAIN s
      THEN IF assetName \in DOMAIN s[appId]
             THEN s[appId][assetName]
             ELSE Undefined
      ELSE Null

\* !!x for a string, null or undefined
Truthy(x) == x # Null /\ x # Undefined /\ x # <<>>

\* hasAsset(appId, assetName), lines 58-60
hasAsset(s, appId, assetName) == Truthy(getAsset(s, appId, assetName))

\* a slip: an entry that exists is kept
ADD_ASSET_KeepsOld(s, appId, assetName, checksum) ==
    LET s1 == IF appId \in DOMAIN s THEN s ELSE VueSet(s, appId, EmptyObject)
    IN  IF assetName \in DOMAIN s1[appId]
          THEN s1
          ELSE VueSet(s1, appId, VueSet(s1[appId], assetName, checksum))

\* ADD_ASSET(appId, assetName, checksum), lines 97-103
ADD_ASSET(s, appId, assetName, checksum) ==
    LET s1 == IF appId \in DOMAIN s THEN s ELSE VueSet(s, appId, EmptyObject)
    IN  VueSet(s1, appId, VueSet(s1[appId], assetName, checksum))

(***************************************************************************)
(* addPlatformAppAsset: one record per invocation.                         *)
(*   pc        idle | mkdirp | fetch | read | hash | done | rejected |     *)
(*             hung (nothing pending and the promise not settled)          *)
(*   appId, assetUrl   the arguments                                       *)
(*   result    downloadFile's buffer (emptied once nothing reads it)       *)
(*   dl        the promise downloadFile returned: none | pending |         *)
(*             resolved | rejected                                         *)
(*   fault     the rejection raised inside downloadFile's promise chain    *)
(*   writes    how often this invocation wrote its file                    *)
(*   hash, pos getChecksum's accumulator and read position                 *)
(*   err       the reason addPlatformAppAsset rejected with                *)
(*   added     whether this invocation has called ADD_ASSET                *)
(*   downloads how often this invocation has called downloadFile           *)
(*   seen      the contents its file has held since getChecksum opened it  *)
(*             (kept by SpecRaces only)                                    *)
(*   recorded  the checksum it passed to ADD_ASSET                         *)
(*   latest    its call of ADD_ASSET is the latest call of all             *)
(*   ret       the value addPlatformAppAsset resolved with                 *)
(*   aloneFile no other invocation writing the same file has been in       *)
(*             flight since this one started                               *)
(*   aloneArgs no other invocation with the same appId and assetUrl has    *)
(*             been in flight since this one started                       *)
(***************************************************************************)
Invocations == {1, 2}

IdleInvocation ==
    [pc |-> "idle", appId |-> "none", assetUrl |-> <<>>, result |-> <<>>,
     dl |-> "none", fault |-> "none", writes |-> 0, hash |-> 0, pos |-> 0,
     err |-> "none", added |-> FALSE, aloneFile |-> TRUE, aloneArgs |-> TRUE,
     downloads |-> 0, seen |-> {}, recorded |-> <<>>, latest |-> FALSE,
     ret |-> <<>>]

AssetsIdle ==
    /\ state = EmptyObject
    /\ disk = EmptyObject
    /\ dirs = {}
    /\ inv = [i \in Invocations |-> IdleInvocation]
    /\ started = 0

\* not yet settled: the caller is still waiting
InFlight(r) == r.pc \in {"mkdirp", "fetch", "read", "hash", "hung"}

filePath(r) == filePathOf(r.appId, r.assetUrl)

\* two invocations of one application whose files are the same file
SameFile(r, q) == r.appId = q.appId /\ filePath(r) = filePath(q)

\* two invocations with the same arguments
SameArguments(r, q) == r.appId = q.appId /\ r.assetUrl = q.assetUrl

\* a slip: the `if (!app) throw` guard is missing
getAppFinds_NoGuard(appId) == TRUE

\* private getApp(appId), lines 105-113: whether it returns (TRUE) or throws
getAppFinds(appId) == appId \in LoadedApps

\* addPlatformAppAsset(appId, assetUrl, force) up to its first await:
\* getAssetUrl, then getAssetsTargetDirectory -> getApp -> ensureAssets,
\* which starts mkdirp.  The invocation is given the first free record.
Start(i, appId, assetUrl, force) ==
    /\ inv[i].pc = "idle"
    /\ \A j \in Invocations : j < i => inv[j].pc # "idle"
    /\ started < MaxStarts
    /\ started' = started + 1
    /\ LET new == [IdleInvocation EXCEPT !.appId = appId, !.assetUrl = assetUrl]
           others == {j \in Invocations \ {i} : inv[j].pc # "idle"}
           file == {j \in others : SameFile(inv[j], new)}
           args == {j \in others : SameArguments(inv[j], new)}
           me == [new EXCEPT
                    !.aloneFile = ~\E j \in file : InFlight(inv[j]),
                    !.aloneArgs = ~\E j \in args : InFlight(inv[j])]
       IN  inv' = [j \in Invocations |->
                     IF j = i
                       THEN IF getAppFinds(appId)
                              THEN [me EXCEPT !.pc = "mkdirp"]
                              ELSE [me EXCEPT !.pc = "rejected",
                                              !.err = "Invalid app"]
                       ELSE [inv[j] EXCEPT
                               !.aloneFile = @ /\ j \notin file,
                               !.aloneArgs = @ /\ j \notin args]]
    /\ UNCHANGED <<state, disk, dirs, notAssets>>

\* a slip: downloadFile is called but not awaited, getChecksum opens the file
\* at once
MkdirpSettles_NoAwait(i, ok) ==
    /\ inv[i].pc = "mkdirp"
    /\ IF ok
         THEN /\ dirs' = dirs \cup {appAssetsDir(inv[i].appId)}
              /\ inv' = [inv EXCEPT ![i].pc = "hash", ![i].dl = "pending",
                                    ![i].downloads = @ + 1,
                                    ![i].hash = createHash, ![i].pos = 0]
         ELSE /\ dirs' = dirs
              /\ inv' = [inv EXCEPT ![i].pc = "rejected", ![i].err = "mkdirp"]
    /\ UNCHANGED <<state, disk, started, notAssets>>

\* a slip: an asset the table already holds is not downloaded again
MkdirpSettles_SkipsCached(i, ok) ==
    /\ inv[i].pc = "mkdirp"
    /\ IF ok
         THEN /\ dirs' = dirs \cup {appAssetsDir(inv[i].appId)}
              /\ inv' = IF hasAsset(state, inv[i].appId, inv[i].assetUrl)
                          THEN [inv EXCEPT ![i].pc = "done",
                                           ![i].ret = filePath(inv[i])]
                          ELSE [inv EXCEPT ![i].pc = "fetch", ![i].dl = "pending",
                                           ![i].downloads = @ + 1]
         ELSE /\ dirs' = dirs
              /\ inv' = [inv EXCEPT ![i].pc = "rejected", ![i].err = "mkdirp"]
    /\ UNCHANGED <<state, disk, started, notAssets>>

\* mkdirp(appAssetsDir) settles; on success line 75 computes filePath and
\* line 78 calls downloadFile, which calls fetch(srcUrl)
MkdirpSettles(i, ok) ==
    /\ inv[i].pc = "mkdirp"
    /\ IF ok
         THEN /\ dirs' = dirs \cup {appAssetsDir(inv[i].appId)}
              /\ inv' = [inv EXCEPT ![i].pc = "fetch", ![i].dl = "pending",
                                    ![i].downloads = @ + 1]
         ELSE /\ dirs' = dirs
              /\ inv' = [inv EXCEPT ![i].pc = "rejected", ![i].err = "mkdirp"]
    /\ UNCHANGED <<state, disk, started, notAssets>>

\* fetch(srcUrl) settles (requests.ts 50-54).  resp is "ok", "notOk" (a
\* response whose ok is false, e.g. 404) or "error" (fetch itself rejects).
\* A rejection inside the chain reaches no handler: reject is never called.
FetchSettles(i, resp) ==
    /\ inv[i].pc = "fetch"
    /\ IF resp = "ok"
         THEN inv' = [inv EXCEPT ![i].pc = "read", ![i].result = <<>>]
         ELSE inv' = [inv EXCEPT ![i].pc = "hung", ![i].fault = resp]
    /\ UNCHANGED <<state, disk, dirs, started, notAssets>>

\* concatUint8Arrays(a, b), lines 69-74
concatUint8Arrays(a, b) == a \o b

\* a slip: every chunk is written through to the file as it arrives
ReadChunk_WritesThrough(i, value) ==
    /\ inv[i].pc = "read"
    /\ Len(inv[i].result) < MaxChunks
    /\ inv' = [inv EXCEPT ![i].result = concatUint8Arrays(@, <<value>>)]
    /\ disk' = [p \in (DOMAIN disk) \cup {filePath(inv[i])} |->
                  IF p = filePath(inv[i])
                    THEN concatUint8Arrays(inv[i].result, <<value>>)
                    ELSE disk[p]]
    /\ UNCHANGED <<state, dirs, started, notAssets>>

\* reader.read() resolves with {done: false, value} (lines 59-62)
ReadChunk(i, value) ==
    /\ inv[i].pc = "read"
    /\ Len(inv[i].result) < MaxChunks
    /\ inv' = [inv EXCEPT ![i].result = concatUint8Arrays(@, <<value>>)]
    /\ UNCHANGED <<state, disk, dirs, started, notAssets>>

\* reader.read() rejects: the stream errored
ReadError(i) ==
    /\ inv[i].pc = "read"
    /\ inv' = [inv EXCEPT ![i].pc = "hung", ![i].fault = "stream",
                          ![i].result = <<>>]
    /\ UNCHANGED <<state, disk, dirs, started, notAssets>>

\* fs.writeFileSync(dstPath, result)
writeFileSync(d, dstPath, data) ==
    [p \in (DOMAIN d) \cup {dstPath} |-> IF p = dstPath THEN data ELSE d[p]]

\* reader.read() resolves with {done: true} (lines 56-58): the buffer is
\* written and resolve() called; addPlatformAppAsset resumes and calls
\* getChecksum(filePath), which opens the file (lines 80-81).
\* writable = FALSE: writeFileSync throws inside the then handler.
\* keep: whether the history field `seen` is kept.
ReadDoneStep(i, writable, keep) ==
    /\ inv[i].pc = "read"
    /\ IF writable
         THEN /\ disk' = writeFileSync(disk, filePath(inv[i]), inv[i].result)
              /\ inv' = [j \in Invocations |->
                            IF j = i
                              THEN [inv[i] EXCEPT
                                      !.pc = "hash", !.dl = "resolved",
                                      !.writes = @ + 1, !.result = <<>>,
                                      !.hash = createHash, !.pos = 0,
                                      !.seen = IF keep THEN {inv[i].result}
                                                       ELSE {}]
                              ELSE IF /\ keep
                                      /\ inv[j].pc = "hash"
                                      /\ SameFile(inv[j], inv[i])
                                     THEN [inv[j] EXCEPT
                                             !.seen = @ \cup {inv[i].result}]
                                     ELSE inv[j]]
         ELSE /\ disk' = disk
              /\ inv' = [inv EXCEPT ![i].pc = "hung", ![i].fault = "write",
                                    ![i].result = <<>>]
    /\ UNCHANGED <<state, dirs, started, notAssets>>

ReadDone(i, writable) == ReadDoneStep(i, writable, FALSE)

ReadDoneSeen(i, writable) == ReadDoneStep(i, writable, TRUE)

\* file.on('data', data => hash.update(data)): the next piece of the file as
\* it is on disk now
HashData(i) ==
    /\ inv[i].pc = "hash"
    /\ filePath(inv[i]) \in DOMAIN disk
    /\ inv[i].pos < Len(disk[filePath(inv[i])])
    /\ inv' = [inv EXCEPT
                 ![i].hash = hashUpdate(@, disk[filePath(inv[i])][inv[i].pos + 1]),
                 ![i].pos = @ + 1]
    /\ UNCHANGED <<state, disk, dirs, started, notAssets>>

\* a slip: the digest is taken on the first event of the stream, not on 'end'
HashEnd_BeforeEnd(i) ==
    /\ inv[i].pc = "hash"
    /\ filePath(inv[i]) \in DOMAIN disk
    /\ state' = ADD_ASSET(state, inv[i].appId, inv[i].assetUrl,
                          hashDigest(inv[i].hash))
    /\ inv' = [j \in Invocations |->
                  IF j = i
                    THEN [inv[i] EXCEPT
                            !.pc = "done", !.added = TRUE, !.hash = 0, !.pos = 0,
                            !.seen = {}, !.recorded = hashDigest(inv[i].hash),
                            !.latest = TRUE, !.ret = filePath(inv[i])]
                    ELSE [inv[j] EXCEPT !.latest = FALSE]]
    /\ UNCHANGED <<disk, dirs, started, notAssets>>

\* file.on('end', ...) resolves with hash.digest('hex'); addPlatformAppAsset
\* resumes: ADD_ASSET(appId, assetUrl, checksum), return filePath (82-84)
HashEnd(i) ==
    /\ inv[i].pc = "hash"
    /\ filePath(inv[i]) \in DOMAIN disk
    /\ inv[i].pos >= Len(disk[filePath(inv[i])])
    /\ state' = ADD_ASSET(state, inv[i].appId, inv[i].assetUrl,
                          hashDigest(inv[i].hash))
    /\ inv' = [j \in Invocations |->
                  IF j = i
                    THEN [inv[i] EXCEPT
                            !.pc = "done", !.added = TRUE, !.hash = 0, !.pos = 0,
                            !.seen = {}, !.recorded = hashDigest(inv[i].hash),
                            !.latest = TRUE, !.ret = filePath(inv[i])]
                    ELSE [inv[j] EXCEPT !.latest = FALSE]]
    /\ UNCHANGED <<disk, dirs, started, notAssets>>

\* a slip: the error is caught and what was hashed so far is recorded
HashError_Records(i) ==
    /\ inv[i].pc = "hash"
    /\ state' = ADD_ASSET(state, inv[i].appId, inv[i].assetUrl,
                          hashDigest(inv[i].hash))
    /\ inv' = [inv EXCEPT ![i].pc = "rejected", ![i].err = "checksum",
                          ![i].hash = 0, ![i].pos = 0, ![i].seen = {}]
    /\ UNCHANGED <<disk, dirs, started, notAssets>>

\* file.on('error', e => reject(e)): getChecksum rejects and so does
\* addPlatformAppAsset
HashError(i) ==
    /\ inv[i].pc = "hash"
    /\ inv' = [inv EXCEPT ![i].pc = "rejected", ![i].err = "checksum",
                          ![i].hash = 0, ![i].pos = 0, ![i].seen = {}]
    /\ UNCHANGED <<state, disk, dirs, started, notAssets>>

\* the caller has observed the settled promise
Return(i) ==
    /\ inv[i].pc \in {"done", "rejected"}
    /\ inv' = [inv EXCEPT ![i] = IdleInvocation]
    /\ UNCHANGED <<state, disk, dirs, started, notAssets>>

NextAssets ==
    \/ \E i \in Invocations, appId \in AppIds, assetUrl \in AssetRefs,
          force \in BOOLEAN : Start(i, appId, assetUrl, force)
    \/ \E i \in Invocations, ok \in BOOLEAN : MkdirpSettles(i, ok)
    \/ \E i \in Invocations, resp \in {"ok", "notOk", "error"} : FetchSettles(i, resp)
    \/ \E i \in Invocations, value \in Chunks : ReadChunk(i, value)
    \/ \E i \in Invocations : ReadError(i)
    \/ \E i \in Invocations, writable \in BOOLEAN : ReadDone(i, writable)
    \/ \E i \in Invocations : HashData(i)
    \/ \E i \in Invocations : HashEnd(i)
    \/ \E i \in Invocations : HashError(i)
    \/ \E i \in Invocations : Return(i)

\* the same steps, with the history of file contents kept
NextRaces ==
    \/ \E i \in Invocations, appId \in AppIds, assetUrl \in AssetRefs,
          force \in BOOLEAN : Start(i, appId, assetUrl, force)
    \/ \E i \in Invocations, ok \in BOOLEAN : MkdirpSettles(i, ok)
    \/ \E i \in Invocations, resp \in {"ok", "notOk", "error"} : FetchSettles(i, resp)
    \/ \E i \in Invocations, value \in Chunks : ReadChunk(i, value)
    \/ \E i \in Invocations : ReadError(i)
    \/ \E i \in Invocations, writable \in BOOLEAN : ReadDoneSeen(i, writable)
    \/ \E i \in Invocations : HashData(i)
    \/ \E i \in Invocations : HashEnd(i)
    \/ \E i \in Invocations : HashError(i)
    \/ \E i \in Invocations : Return(i)

(***************************************************************************)
(* The store alone: ADD_ASSET called with any arguments, from any table    *)
(* that calls of ADD_ASSET can have built.                                 *)
(***************************************************************************)
\* checksums as getChecksum produces them
StoreChecksums == {checksumOf(<<>>), checksumOf(<<1>>), checksumOf(<<2, 1>>)}

\* before: the checksum the call before this one passed for the same key,
\* <<>> when the call before was for another key or there was none
NoAdd == [called |-> FALSE, appId |-> "none", assetName |-> <<>>, checksum |-> <<>>,
          before |-> <<>>]

StoreIdle == lastAdd = NoAdd

StoreAdd(appId, assetName, checksum) ==
    /\ state' = ADD_ASSET(state, appId, assetName, checksum)
    /\ lastAdd' = [called |-> TRUE, appId |-> appId, assetName |-> assetName,
                   checksum |-> checksum,
                   before |-> IF /\ lastAdd.called
                                 /\ lastAdd.appId = appId
                                 /\ lastAdd.assetName = assetName
                              THEN lastAdd.checksum
                              ELSE <<>>]
    /\ UNCHANGED <<disk, dirs, inv, started, retryVars>>

NextStore ==
    \E appId \in AppIds, assetName \in AssetRefs, checksum \in StoreChecksums :
        StoreAdd(appId, assetName, checksum)

(***************************************************************************)
(* The specifications.                                                     *)
(***************************************************************************)

InitRetry == RetryIdle /\ AssetsIdle /\ StoreIdle

SpecRetry == InitRetry /\ [][NextRetry]_vars

InitAssets == RetryIdle /\ AssetsIdle /\ StoreIdle

SpecAssets == InitAssets /\ [][NextAssets]_vars

SpecRaces == InitAssets /\ [][NextRaces]_vars

InitStore == RetryIdle /\ AssetsIdle /\ StoreIdle

SpecStore == InitStore /\ [][NextStore]_vars

(***************************************************************************)
(* Properties of downloadFile                                              *)
(***************************************************************************)
\* C4: a downloadFile call whose fetch returns a response that is not ok
\* (e.g. 404) has rejected, and has written nothing to its destination.
C4_NotOkRejectsWithoutWriting ==
    \A i \in Invocations :
        inv[i].fault = "notOk" => inv[i].dl = "rejected" /\ inv[i].writes = 0

\* C5: a downloadFile call whose chunk stream errored on a read has
\* rejected: with nothing left pending, its promise is not left unsettled.
C5_StreamErrorRejects ==
    \A i \in Invocations :
        (inv[i].pc = "hung" /\ inv[i].fault = "stream") => inv[i].dl = "rejected"

\* C6: a downloadFile call that reached end-of-stream and could not write
\* its destination has rejected; it has neither resolved nor stayed pending.
C6_WriteFailureRejects ==
    \A i \in Invocations :
        (inv[i].fault = "write" /\ inv[i].writes = 0) => inv[i].dl = "rejected"

(***************************************************************************)
(* Properties of addPlatformAppAsset                                       *)
(***************************************************************************)
\* the destination the spec names: the application's directory joined with
\* the base filename of the resolved URL
ExpectedPath(r) ==
    <<"userData", "Media", "Apps", r.appId>>
        \o <<getAssetUrl(r.appId, r.assetUrl)[Len(getAssetUrl(r.appId, r.assetUrl))]>>

\* C7: an invocation for an application the lifecycle collaborator does not
\* know rejects, in the step that starts it, with the invalid-application
\* error; that step creates no directory, starts no download and leaves the
\* disk and the checksum table as they were, and the invocation does nothing
\* afterwards.
C7_UnknownAppRejectsEarly ==
    /\ [](\A i \in Invocations :
            (inv[i].pc # "idle" /\ inv[i].appId \notin LoadedApps) =>
                /\ inv[i].pc = "rejected"
                /\ inv[i].err = "Invalid app"
                /\ inv[i].dl = "none"
                /\ inv[i].writes = 0
                /\ ~inv[i].added)
    /\ [][\A i \in Invocations :
            (inv[i].pc = "idle" /\ inv'[i].pc # "idle"
                /\ inv'[i].appId \notin LoadedApps) =>
                (dirs' = dirs /\ disk' = disk /\ state' = state)]_vars

C7_Witness ==
    \E i \in Invocations :
        /\ inv[i].pc = "rejected"
        /\ inv[i].err = "Invalid app"
        /\ inv[i].appId \notin LoadedApps
        /\ state # EmptyObject
        /\ dirs # {}

\* C8: the checksum table changes only in the step in which an invocation
\* whose download resolved sees its checksum computation end, and changes
\* there by ADD_ASSET with the invocation's own arguments; a step in which an
\* invocation fails (unknown application, download fault, checksum error)
\* leaves the table as it was.
C8_RecordOnlyAfterDownloadAndChecksum ==
    /\ [](\A i \in Invocations :
            inv[i].added => inv[i].dl = "resolved" /\ inv[i].pc = "done")
    /\ [][/\ state' # state =>
                \E i \in Invocations :
                    /\ inv[i].pc = "hash"
                    /\ inv[i].dl = "resolved"
                    /\ inv'[i].pc = "done"
                    /\ state' = ADD_ASSET(state, inv[i].appId, inv[i].assetUrl,
                                          hashDigest(inv[i].hash))
          /\ (\E i \in Invocations :
                  /\ inv[i].pc \notin {"rejected", "hung"}
                  /\ inv'[i].pc \in {"rejected", "hung"})
                => state' = state]_vars

C8_Witness ==
    \E i, j \in Invocations :
        /\ inv[i].pc = "done"
        /\ inv[i].added
        /\ inv[j].pc = "rejected"
        /\ inv[j].err = "checksum"
        /\ inv[j].dl = "resolved"
        /\ inv[i].assetUrl # inv[j].assetUrl
        /\ hasAsset(state, inv[i].appId, inv[i].assetUrl)
        /\ ~hasAsset(state, inv[j].appId, inv[j].assetUrl)

\* what C9 promises of a completed invocation
AssetRecorded(r) ==
    /\ hasAsset(state, r.appId, r.assetUrl)
    /\ ExpectedPath(r) \in DOMAIN disk
    /\ checksumOf(disk[ExpectedPath(r)]) = getAsset(state, r.appId, r.assetUrl)

C14_StepsInOrder ==
    \A i \in Invocations :
        /\ inv[i].pc = "hash" =>
              /\ inv[i].writes = 1
              /\ inv[i].dl = "resolved"
              /\ ~inv[i].added
              /\ inv[i].ret = <<>>
        /\ inv[i].writes = 0 => (inv[i].hash = 0 /\ inv[i].pos = 0 /\ ~inv[i].added)
        /\ inv[i].added =>
              /\ inv[i].pc = "done"
              /\ inv[i].recorded # <<>>
              /\ inv[i].hash = 0
        /\ inv[i].pc = "done" => inv[i].added
        /\ inv[i].ret # <<>> =>
              /\ inv[i].added
              /\ inv[i].ret = filePathOf(inv[i].appId, inv[i].assetUrl)
        /\ inv[i].added => inv[i].ret # <<>>

\* an invocation has gone through all four steps with a file of two chunks
C14_Witness ==
    \E i \in Invocations :
        /\ inv[i].pc = "done"
        /\ inv[i].writes = 1
        /\ inv[i].dl = "resolved"
        /\ inv[i].added
        /\ inv[i].ret = <<"userData", "Media", "Apps", "app1", "x.mp4">>
        /\ inv[i].ret \in DOMAIN disk
        /\ Len(disk[inv[i].ret]) = 2
        /\ inv[i].recorded = checksumOf(disk[inv[i].ret])
        /\ getAsset(state, inv[i].appId, inv[i].assetUrl) = inv[i].recorded

\* C15: downloadFile writes its file at most once, in the step in which the
\* stream ends (no chunk is read after it), and what it writes is the chunks
\* received, concatenated in the order they arrived; the promise resolves in
\* that step and in no other, so a download that has resolved has written its
\* file, complete, and the file is there.  No other step touches the disk.
C15_OneCompleteWriteThenResolve ==
    /\ [](\A i \in Invocations :
            /\ inv[i].writes <= 1
            /\ inv[i].dl = "resolved" <=> inv[i].writes = 1
            /\ inv[i].dl = "resolved" =>
                  /\ ExpectedPath(inv[i]) \in DOMAIN disk
                  /\ inv[i].pc \notin {"mkdirp", "fetch", "read"})
    /\ [][\A i \in Invocations :
            (inv[i].pc = "read" /\ inv'[i].pc = "read"
               /\ inv'[i].result # inv[i].result) =>
                \E value \in Chunks : inv'[i].result = Append(inv[i].result, value)]_vars
    /\ [][(\/ disk' # disk
           \/ \E i \in Invocations :
                 inv[i].dl # "resolved" /\ inv'[i].dl = "resolved") =>
              \E i \in Invocations :
                  /\ inv[i].pc = "read"
                  /\ inv[i].writes = 0
                  /\ inv'[i].writes = 1
                  /\ inv'[i].dl = "resolved"
                  /\ ExpectedPath(inv[i]) \in DOMAIN disk'
                  /\ disk'[ExpectedPath(inv[i])] = inv[i].result
                  /\ \A p \in DOMAIN disk' \ {ExpectedPath(inv[i])} :
                        p \in DOMAIN disk /\ disk'[p] = disk[p]]_vars

\* a download of two different chunks has resolved and, no other invocation
\* having written the file, the file holds them in the order they arrived
C15_Witness ==
    \E i \in Invocations :
        /\ inv[i].dl = "resolved"
        /\ inv[i].writes = 1
        /\ inv[i].aloneFile
        /\ ExpectedPath(inv[i]) \in DOMAIN disk
        /\ disk[ExpectedPath(inv[i])] = <<2, 1>>

\* C17: when two invocations with the same application and asset have both
\* resolved, exactly one of them called ADD_ASSET last, and getAsset returns
\* the checksum that one passed, whichever of the two it is.
C17_LastRecordWins ==
    \A i, j \in Invocations :
        (/\ i # j
         /\ inv[i].pc = "done"
         /\ inv[j].pc = "done"
         /\ SameArguments(inv[i], inv[j])) =>
            /\ inv[i].latest # inv[j].latest
            /\ getAsset(state, inv[i].appId, inv[i].assetUrl) =
                  (IF inv[i].latest THEN inv[i].recorded ELSE inv[j].recorded)

\* the two ran concurrently, passed different checksums, and the table holds
\* that of the one that ran last, not the other
C17_Witness ==
    \E i, j \in Invocations :
        /\ i # j
        /\ inv[i].pc = "done"
        /\ inv[j].pc = "done"
        /\ SameArguments(inv[i], inv[j])
        /\ ~inv[i].aloneArgs
        /\ ~inv[j].aloneArgs
        /\ inv[j].latest
        /\ inv[i].recorded # inv[j].recorded
        /\ getAsset(state, inv[i].appId, inv[i].assetUrl) = inv[j].recorded

\* C18 as stated: with two invocations for the same application and asset
\* under way, the checksum either of them passes to ADD_ASSET is the digest of
\* one of the complete contents its file has held since getChecksum opened it
\* (each the whole buffer of one download); and once both have resolved, the
\* checksum the table holds is the digest of the file on disk.
C18_DigestOfOneDownload ==
    /\ [][\A i, j \in Invocations :
            (/\ i # j
             /\ inv[j].pc # "idle"
             /\ SameArguments(inv[i], inv[j])
             /\ inv[i].pc = "hash"
             /\ inv'[i].pc = "done") =>
                inv'[i].recorded \in {checksumOf(c) : c \in inv[i].seen}]_vars
    /\ [](\A i, j \in Invocations :
            (/\ i # j
             /\ inv[i].pc = "done"
             /\ inv[j].pc = "done"
             /\ SameArguments(inv[i], inv[j])) =>
                /\ ExpectedPath(inv[i]) \in DOMAIN disk
                /\ getAsset(state, inv[i].appId, inv[i].assetUrl) =
                      checksumOf(disk[ExpectedPath(inv[i])]))

\* C19 as stated: every key of an application's map is the base filename of
\* the resolved URL of the reference it was recorded for, the name of the file
\* written; and two invocations of one application with the same destination
\* file, the second started after the first had completed (nothing writing
\* its file has been in flight since it started), leave the same checksum
\* under both their references.
C19_KeyIsBaseFilename ==
    /\ \A appId \in DOMAIN state :
          \A key \in DOMAIN state[appId] :
              key = <<basename(getAssetUrl(appId, key))>>
    /\ \A i, j \in Invocations :
          (/\ i # j
           /\ inv[i].pc = "done"
           /\ inv[j].pc = "done"
           /\ inv[j].aloneFile
           /\ SameFile(inv[i], inv[j])) =>
              getAsset(state, inv[i].appId, inv[i].assetUrl) =
                  getAsset(state, inv[j].appId, inv[j].assetUrl)

(***************************************************************************)
(* Properties of the store                                                 *)
(***************************************************************************)
\* C10: right after ADD_ASSET(appId, name, cs), whatever the table held
\* before, getAsset(appId, name) is cs and hasAsset(appId, name) is true
\* (cs a checksum as getChecksum produces it: a non-empty hex string).
C10_RecordThenLookup ==
    lastAdd.called =>
        /\ getAsset(state, lastAdd.appId, lastAdd.assetName) = lastAdd.checksum
        /\ hasAsset(state, lastAdd.appId, lastAdd.assetName)

\* the table holds both applications, and the application written to holds
\* another entry as well
C10_Witness ==
    /\ lastAdd.called
    /\ Cardinality(DOMAIN state) = 2
    /\ Cardinality(DOMAIN state[lastAdd.appId]) = 2
    /\ lastAdd.checksum = checksumOf(<<2, 1>>)
    /\ getAsset(state, lastAdd.appId, lastAdd.assetName) = checksumOf(<<2, 1>>)

\* C11: when ADD_ASSET is called twice in a row for the same application
\* and name with two different checksums, getAsset returns the second one
\* and the first one is no longer what that key holds.
C11_SecondChecksumReplacesFirst ==
    (lastAdd.called /\ lastAdd.before # <<>> /\ lastAdd.before # lastAdd.checksum) =>
        /\ getAsset(state, lastAdd.appId, lastAdd.assetName) = lastAdd.checksum
        /\ getAsset(state, lastAdd.appId, lastAdd.assetName) # lastAdd.before

\* two calls in a row for one key with different checksums, in a table that
\* holds another application and another name of the same application
C11_Witness ==
    /\ lastAdd.called
    /\ lastAdd.before = checksumOf(<<1>>)
    /\ lastAdd.checksum = checksumOf(<<2, 1>>)
    /\ Cardinality(DOMAIN state) = 2
    /\ Cardinality(DOMAIN state[lastAdd.appId]) = 2
    /\ getAsset(state, lastAdd.appId, lastAdd.assetName) = checksumOf(<<2, 1>>)

Is401(out) == out.kind = "reject" /\ out.obj /\ out.status = Unauthorized

FirstCall401 == Len(rtCalls) >= 1 /\ Is401(rtCalls[1].out)

RefreshResolved == Len(rtRefresh) >= 1 /\ rtRefresh[1].kind = "resolve"

\* C1: when the first call of the wrapped operation rejected with status
\* 401, fetchNewToken resolved and the second call resolved, the invocation
\* has resolved with the second call's value, after exactly one call of
\* fetchNewToken and exactly two calls of the wrapped operation.
C1_RetryResolvesWithReplay ==
    ( /\ rtPc = "settled"
      /\ FirstCall401
      /\ RefreshResolved
      /\ Len(rtCalls) >= 2
      /\ rtCalls[2].out.kind = "resolve" )
    => /\ rtResult = rtCalls[2].out
       /\ Len(rtRefresh) = 1
       /\ Len(rtCalls) = 2

C1_Witness ==
    /\ rtPc = "settled"
    /\ FirstCall401
    /\ RefreshResolved
    /\ Len(rtCalls) = 2
    /\ rtCalls[2].out.kind = "resolve"
    /\ rtResult.kind = "resolve"

\* C2: when every call of the wrapped operation rejected with status 401
\* and fetchNewToken resolved, the invocation has rejected with the reason
\* of the second call, after exactly one refresh and exactly two calls; and
\* in no state has there been a second refresh or a third call.
C2_SecondUnauthorizedIsFinal ==
    /\ Len(rtCalls) <= 2
    /\ Len(rtRefresh) <= 1
    /\ ( /\ rtPc = "settled"
         /\ \A k \in 1..Len(rtCalls) : Is401(rtCalls[k].out)
         /\ \A k \in 1..Len(rtRefresh) : rtRefresh[k].kind = "resolve"
         /\ Len(rtCalls) >= 1 )
       => /\ Len(rtCalls) = 2
          /\ Len(rtRefresh) = 1
          /\ rtResult = rtCalls[2].out
          /\ rtResult.kind = "reject"

\* the two 401 reasons differ, and the second one is the one surfaced
C2_Witness ==
    /\ rtPc = "settled"
    /\ Len(rtCalls) = 2
    /\ Is401(rtCalls[1].out)
    /\ Is401(rtCalls[2].out)
    /\ rtCalls[1].out # rtCalls[2].out
    /\ rtResult = rtCalls[2].out
    /\ Len(rtRefresh) = 1

\* C3: when the first call rejected with a reason whose status is not 401,
\* the invocation has rejected with that very reason, fetchNewToken was
\* never called and the wrapped operation was called exactly once.
C3_OtherRejectionPassesThrough ==
    ( /\ rtPc = "settled"
      /\ Len(rtCalls) >= 1
      /\ rtCalls[1].out.kind = "reject"
      /\ rtCalls[1].out.obj
      /\ rtCalls[1].out.status # Unauthorized )
    => /\ rtResult = rtCalls[1].out
       /\ rtRefresh = <<>>
       /\ Len(rtCalls) = 1

C3_Witness ==
    /\ rtPc = "settled"
    /\ Len(rtCalls) = 1
    /\ rtCalls[1].out.kind = "reject"
    /\ rtCalls[1].out.obj
    /\ rtCalls[1].out.status = 403
    /\ rtResult = rtCalls[1].out
    /\ rtRefresh = <<>>

\* C16: the wrapped operation is called a second time only when the first
\* call rejected with status 401 and fetchNewToken has resolved (never while
\* fetchNewToken is pending, never after it rejected), and the second call
\* is given the argument list of the first, which is the caller's.
C16_ReplayAfterRefreshWithSameArgs ==
    /\ rtPc = "refresh" => Len(rtCalls) = 1
    /\ (Len(rtRefresh) >= 1 /\ rtRefresh[1].kind = "reject") => Len(rtCalls) = 1
    /\ Len(rtCalls) >= 2 =>
          /\ FirstCall401
          /\ RefreshResolved
          /\ rtCalls[1].args = rtArgs
          /\ rtCalls[2].args = rtCalls[1].args

\* the replay is under way, with the second of the two argument lists
C16_Witness ==
    /\ rtPc = "call2"
    /\ FirstCall401
    /\ RefreshResolved
    /\ Len(rtCalls) = 2
    /\ rtArgs = "args2"
    /\ rtCalls[2].args = "args2"

\* C20: when the first call rejected with status 401 and fetchNewToken
\* rejected, the wrapped operation has been called exactly once and the
\* invocation has rejected with the reason fetchNewToken rejected with.
C20_RefreshFailureIsFinal ==
    (FirstCall401 /\ Len(rtRefresh) >= 1 /\ rtRefresh[1].kind = "reject") =>
        /\ rtPc = "settled"
        /\ Len(rtCalls) = 1
        /\ Len(rtRefresh) = 1
        /\ rtResult = rtRefresh[1]

\* fetchNewToken rejected with a reason other than the 401 of the first call
C20_Witness ==
    /\ rtPc = "settled"
    /\ FirstCall401
    /\ Len(rtCalls) = 1
    /\ Len(rtRefresh) = 1
    /\ rtRefresh[1].kind = "reject"
    /\ rtRefresh[1] # rtCalls[1].out
    /\ rtRefresh[1].obj
    /\ rtRefresh[1].status = 403
    /\ rtResult = rtRefresh[1]

====
